---- MODULE Spec2Model ----
(***************************************************************************)
(* stream/stream_lavf.c: the libavformat (avio) stream backend adapter.    *)
(*                                                                         *)
(* The stream descriptor (stream_t) and the backend's handles (AVIOContext)*)
(* are the state; open_f, close_f, fill_buffer, write_buffer, seek,        *)
(* control and read_icy are operators translated from the C functions.     *)
(* Each returns the new descriptor, the new backend state, the C return    *)
(* value, the output argument and the list of backend calls it issued.     *)
(* The backend (libavformat) is an external collaborator: what it answers  *)
(* (open succeeds or fails, bytes read, error flag, ...) is an input the   *)
(* actions draw from small sets.                                           *)
(***************************************************************************)
EXTENDS Integers, Sequences, FiniteSets, TLC

VARIABLES stream, avio, caps, opts, pc, ncloses, last

vars == <<stream, avio, caps, opts, pc, ncloses, last>>

(***************************************************************************)
(* Bounds of the model.                                                    *)
(***************************************************************************)
\* backend handles a behaviour may open (the first open and the reconnects)
MaxOpens == 3
\* largest max_len / len passed to fill_buffer / write_buffer
MaxLen == 2
\* times the caller invokes the close handler
MaxCloseCalls == 2

(***************************************************************************)
(* C strings are sequences of one-character strings; a char* that may be   *)
(* NULL is NULLP or Ptr(str).                                              *)
(***************************************************************************)
NULLP == <<>>
Ptr(str) == <<str>>
Deref(p) == p[1]

CR == "\r"
LF == "\n"

\* strncmp(str, pre, strlen(pre)) == 0
StartsWith(str, pre) ==
    /\ Len(str) >= Len(pre)
    /\ SubSeq(str, 1, Len(pre)) = pre

\* str + n
Skip(str, n) == SubSeq(str, n + 1, Len(str))

s_lavf == <<"l", "a", "v", "f", ":", "/", "/">>
s_ffmpeg == <<"f", "f", "m", "p", "e", "g", ":", "/", "/">>
s_rtsp == <<"r", "t", "s", "p", ":">>
s_mms == <<"m", "m", "s", ":", "/", "/">>
s_mmshttp == <<"m", "m", "s", "h", "t", "t", "p", ":", "/", "/">>
s_mmsh == <<"m", "m", "s", "h", ":", "/", "/">>
s_rtmp == <<"r", "t", "m", "p">>
s_MMS == <<"M", "M", "S", ":", "/", "/">>
s_http == <<"h", "t", "t", "p", ":">>

\* static const char * const prefix[] = { "lavf://", "ffmpeg://" };
prefix == <<s_lavf, s_ffmpeg>>

(***************************************************************************)
(* Result codes (stream.h) and open flags (avio.h).                        *)
(***************************************************************************)
STREAM_UNSUPPORTED == -1
STREAM_ERROR == 0
STREAM_OK == 1

AVIO_FLAG_READ == 1
AVIO_FLAG_WRITE == 2

STREAM_READ == "STREAM_READ"
STREAM_WRITE == "STREAM_WRITE"

STREAM_CTRL_GET_SIZE == "STREAM_CTRL_GET_SIZE"
STREAM_CTRL_AVSEEK == "STREAM_CTRL_AVSEEK"
STREAM_CTRL_GET_METADATA == "STREAM_CTRL_GET_METADATA"
STREAM_CTRL_RECONNECT == "STREAM_CTRL_RECONNECT"
\* two of the codes of stream.h that control() has no case for
STREAM_CTRL_GET_TIME_LENGTH == "STREAM_CTRL_GET_TIME_LENGTH"
STREAM_CTRL_GET_CACHE_SIZE == "STREAM_CTRL_GET_CACHE_SIZE"

KnownCmds ==
    {STREAM_CTRL_GET_SIZE, STREAM_CTRL_AVSEEK, STREAM_CTRL_GET_METADATA,
     STREAM_CTRL_RECONNECT}
OtherCmds == {STREAM_CTRL_GET_TIME_LENGTH, STREAM_CTRL_GET_CACHE_SIZE}
Cmds == KnownCmds \cup OtherCmds

\* a negative AVERROR code other than AVERROR_PROTOCOL_NOT_FOUND
AVERROR_EIO == -5
AVERROR_PROTOCOL_NOT_FOUND == -2
\* what a backend operation returns when the interrupt callback made it stop
AVERROR_EXIT == -1414092869


(***************************************************************************)
(* Configuration (struct MPOpts) and the option dictionary (AVDictionary). *)
(* A dictionary is the list of its <<key, value>> entries.  Values are     *)
(* opaque strings; the custom header block is the list of its CRLF-ended   *)
(* lines.                                                                  *)
(***************************************************************************)
RECURSIVE DictRemove(_, _)
DictRemove(d, key) ==
    IF d = <<>> THEN <<>>
    ELSE IF Head(d)[1] = key THEN DictRemove(Tail(d), key)
    ELSE <<Head(d)>> \o DictRemove(Tail(d), key)

\* av_dict_set(&d, key, value, 0): an entry with that key is replaced
av_dict_set(d, key, value) == Append(DictRemove(d, key), <<key, value>>)

\* mp_set_avdict(&d, kv): av_dict_set for each pair of the list, in order
RECURSIVE mp_set_avdict(_, _)
mp_set_avdict(d, kv) ==
    IF kv = <<>> THEN d
    ELSE mp_set_avdict(av_dict_set(d, Head(kv)[1], Head(kv)[2]), Tail(kv))

\* lines 203-213: "Referer: %s\r\n" and each extra field followed by "\r\n"
cust_headers(o) ==
    (IF o.network_referrer # NULLP
        THEN <<<<"Referer: ", Deref(o.network_referrer), CR, LF>>>>
        ELSE <<>>)
    \o [n \in 1..Len(o.network_http_header_fields) |->
            <<o.network_http_header_fields[n], CR, LF>>]

\* lines 189-216 of open_f: the entries set from the structured configuration
StructuredDict(o) ==
    LET d1 == IF o.network_useragent # NULLP
                 THEN av_dict_set(<<>>, "user-agent", Deref(o.network_useragent))
                 ELSE <<>>
        d2 == IF /\ o.network_cookies_enabled
                 /\ o.cookies # NULLP
                 /\ Deref(o.cookies) # ""
                 THEN av_dict_set(d1, "cookies", Deref(o.cookies))
                 ELSE d1
        d3 == av_dict_set(d2, "tls_verify",
                          IF o.network_tls_verify THEN "1" ELSE "0")
        d4 == IF o.network_tls_ca_file # NULLP
                 THEN av_dict_set(d3, "ca_file", Deref(o.network_tls_ca_file))
                 ELSE d3
        d5 == IF cust_headers(o) # <<>>
                 THEN av_dict_set(d4, "headers", cust_headers(o))
                 ELSE d4
    IN  av_dict_set(d5, "icy", "1")

\* BuildDict with the override list applied before the structured entries
BuildDict_overrides_first(o) ==
    mp_set_avdict(mp_set_avdict(<<>>, o.avopts), StructuredDict(o))

\* lines 189-217 of open_f: the dictionary handed to avio_open2
BuildDict(o) == mp_set_avdict(StructuredDict(o), o.avopts)

\* the options a protocol with capabilities c takes out of the dictionary:
\* avio_open2 leaves in dict the entries the protocol has no option for
Consumed(c) ==
    IF c = "http" THEN {"user-agent", "cookies", "headers", "icy"} ELSE {}

\* lines 232-236: the entries left in dict after avio_open2, each logged
Unconsumed(dict, c) == SelectSeq(dict, LAMBDA e : e[1] \notin Consumed(c))

\* the configurations a behaviour starts from
DefaultOpts ==
    [network_useragent |-> NULLP, network_cookies_enabled |-> FALSE,
     cookies |-> NULLP, network_tls_verify |-> FALSE,
     network_tls_ca_file |-> NULLP, network_referrer |-> NULLP,
     network_http_header_fields |-> <<>>, avopts |-> <<>>]

FullOpts ==
    [network_useragent |-> Ptr("ua"), network_cookies_enabled |-> TRUE,
     cookies |-> Ptr("c=1"), network_tls_verify |-> TRUE,
     network_tls_ca_file |-> Ptr("ca.pem"), network_referrer |-> Ptr("ref"),
     network_http_header_fields |-> <<"X: y">>,
     avopts |-> <<<<"user-agent", "override">>, <<"icy", "0">>,
                  <<"timeout", "5">>>>]

Configs == {DefaultOpts, FullOpts}

(***************************************************************************)
(* The backend.  avio maps a handle (1..MaxOpens) to the AVIOContext the   *)
(* backend keeps for it; handle 0 is the NULL pointer.  A handle is        *)
(* "unused" before avio_open2 returns it, "open" until avio_close, then    *)
(* "closed" (the context is freed; closes counts the avio_close calls it   *)
(* got).  buffered is the number of bytes avio_write put into the          *)
(* context's buffer that no flush has written out yet; delivered tells     *)
(* whether a flush has written bytes out.                                  *)
(*                                                                         *)
(* caps is what the protocol selected by the URL scheme exports through    *)
(* the AVOption API: "noclass" (av_class is NULL), "class" (a class with   *)
(* none of mime_type, icy_metadata_headers, icy_metadata_packet) or "http" *)
(* (all three, as libavformat's http protocol declares them together).     *)
(* av_opt_get and av_opt_set on an option the class does not have fail.    *)
(***************************************************************************)
Caps == {"noclass", "class", "http"}

\* the resource behind the URL: the bytes a read session delivers
Content == [i \in 1..MaxLen |-> i]

s_hdr == <<"N", ":", " ", "T", CR, LF>>
s_title == <<"S", "t", "r", "e", "a", "m", "T", "i", "t", "l", "e", "=", "'",
             "x", "'", ";">>
s_sentinel == <<"-">>

HeaderVals == {<<>>, s_hdr}
PacketVals == {<<>>, s_title}
MimeVals == {<<>>, <<"a", "/", "m">>}

Handles == 1..MaxOpens

Unused ==
    [st |-> "unused", closes |-> 0, write_flag |-> FALSE, seekable |-> FALSE,
     av_class |-> FALSE, pos |-> 0, error |-> FALSE, buffered |-> 0,
     delivered |-> FALSE, hdr |-> NULLP, pkt |-> NULLP, mime |-> NULLP]

Closed(n) == [Unused EXCEPT !.st = "closed", !.closes = n]

NoHandles == [h \in Handles |-> Unused]

Used(be) == {h \in Handles : be[h].st # "unused"}
Live(be) == {h \in Handles : be[h].st = "open"}

\* what avio_open2 may answer for a protocol with capabilities c
OpenFailures ==
    {[err |-> e, seekable |-> FALSE, hdr |-> NULLP, pkt |-> NULLP,
      mime |-> NULLP] :
        e \in {AVERROR_EIO, AVERROR_PROTOCOL_NOT_FOUND, AVERROR_EXIT}}

OpenResponses(c) ==
    OpenFailures
    \cup
    (IF c = "http"
        THEN [err : {0}, seekable : BOOLEAN, hdr : {Ptr(v) : v \in HeaderVals},
              pkt : {Ptr(v) : v \in PacketVals},
              mime : {Ptr(v) : v \in MimeVals}]
        ELSE [err : {0}, seekable : BOOLEAN, hdr : {NULLP}, pkt : {NULLP},
              mime : {NULLP}])

NoResponse ==
    [err |-> AVERROR_EIO, seekable |-> FALSE, hdr |-> NULLP, pkt |-> NULLP,
     mime |-> NULLP]

\* one backend call: the function, the handle it was issued on, whether that
\* handle was open at the time, and the call's argument
Call(f, be, h, arg) ==
    [f |-> f, h |-> h, live |-> (h \in Handles /\ be[h].st = "open"),
     arg |-> arg]

\* avio_open2(&avio, filename, flags, &cb, &dict)
avio_open2(be, flags, c, resp) ==
    IF resp.err < 0 THEN [err |-> resp.err, h |-> 0, be |-> be]
    ELSE LET h == Cardinality(Used(be)) + 1
         IN  [err |-> 0, h |-> h,
              be |-> [be EXCEPT ![h] =
                        [st |-> "open", closes |-> 0,
                         write_flag |-> (flags = AVIO_FLAG_WRITE),
                         seekable |-> resp.seekable,
                         av_class |-> (c # "noclass"),
                         pos |-> 0, error |-> FALSE, buffered |-> 0,
                         delivered |-> FALSE, hdr |-> resp.hdr, pkt |-> resp.pkt,
                         mime |-> resp.mime]]]

\* avio_close(avio): the context is freed
avio_close(be, h) == [be EXCEPT ![h] = Closed(be[h].closes + 1)]

(***************************************************************************)
(* bstr and mp_tags helpers used by read_icy.                              *)
(***************************************************************************)
Min(a, b) == IF a < b THEN a ELSE b
Max(a, b) == IF a > b THEN a ELSE b

\* bstr_splice(str, start, end): the bytes [start, end), indices clamped
bstr_splice(str, start, end) ==
    LET st0 == IF start < 0 THEN start + Len(str) ELSE start
        en0 == IF end < 0 THEN end + Len(str) ELSE end
        en1 == Min(Len(str), en0)
        st1 == Max(0, st0)
        en2 == Max(st1, en1)
    IN  SubSeq(str, st1 + 1, en2)

\* bstr_cut(str, n): str without its first n bytes
bstr_cut(str, n) ==
    LET n0 == IF n < 0 THEN Max(0, n + Len(str)) ELSE n
        n1 == Min(n0, Len(str))
    IN  SubSeq(str, n1 + 1, Len(str))

\* bstr_find(haystack, needle): the first 0-based index of needle, or -1
bstr_find(haystack, needle) ==
    LET hits == {i \in 0..(Len(haystack) - Len(needle)) :
                    SubSeq(haystack, i + 1, i + Len(needle)) = needle}
    IN  IF hits = {} THEN -1 ELSE CHOOSE i \in hits : \A j \in hits : i <= j

\* bstrchr(str, c)
bstrchr(str, c) == bstr_find(str, <<c>>)

\* bstr_getline(str, &rest): the first line with its "\n", and the rest
bstr_getline(str) ==
    LET p0 == bstrchr(str, LF)
        pos == IF p0 < 0 THEN Len(str) ELSE p0
    IN  [line |-> bstr_splice(str, 0, pos + 1), rest |-> bstr_cut(str, pos + 1)]

\* bstr_strip_linebreaks(str): drop one trailing "\r\n" or "\n"
bstr_strip_linebreaks(str) ==
    IF Len(str) >= 2 /\ SubSeq(str, Len(str) - 1, Len(str)) = <<CR, LF>>
        THEN bstr_splice(str, 0, Len(str) - 2)
    ELSE IF Len(str) >= 1 /\ str[Len(str)] = LF
        THEN bstr_splice(str, 0, Len(str) - 1)
    ELSE str

\* bstr_split_tok(str, tok, &left, &right)
bstr_split_tok(str, tok) ==
    LET p0 == bstr_find(str, tok)
        pos == IF p0 < 0 THEN Len(str) ELSE p0
    IN  [found |-> p0 >= 0, left |-> bstr_splice(str, 0, pos),
         right |-> bstr_cut(str, pos + Len(tok))]

\* mp_tags_set_bstr(tags, key, value): replace the key's value or append
mp_tags_set_bstr(tags, key, value) ==
    IF \E i \in 1..Len(tags) : tags[i][1] = key
        THEN [i \in 1..Len(tags) |->
                IF tags[i][1] = key THEN <<key, value>> ELSE tags[i]]
        ELSE Append(tags, <<key, value>>)

s_colon_space == <<":", " ">>
s_StreamTitle == <<"S", "t", "r", "e", "a", "m", "T", "i", "t", "l", "e", "=",
                   "'">>
s_icy_title == <<"i", "c", "y", "-", "t", "i", "t", "l", "e">>

\* lines 298-304: one tag per "name: value" line of the header block
RECURSIVE ParseHeader(_, _)
ParseHeader(header, tags) ==
    IF Len(header) = 0 THEN tags
    ELSE LET gl == bstr_getline(header)
             line == bstr_strip_linebreaks(gl.line)
             tok == bstr_split_tok(line, s_colon_space)
         IN  ParseHeader(gl.rest,
                         IF tok.found
                            THEN mp_tags_set_bstr(tags, tok.left, tok.right)
                            ELSE tags)

\* ParseTitle taking the rest of the packet as the title
ParseTitle_toend(packet, tags) ==
    LET i == bstr_find(packet, s_StreamTitle)
    IN  IF i >= 0
           THEN mp_tags_set_bstr(tags, s_icy_title,
                                 bstr_cut(packet, i + Len(s_StreamTitle)))
           ELSE tags

\* lines 306-313: the icy-title tag from the packet
ParseTitle(packet, tags) ==
    LET i == bstr_find(packet, s_StreamTitle)
    IN  IF i >= 0
           THEN LET p1 == bstr_cut(packet, i + Len(s_StreamTitle))
                    end == bstrchr(p1, "'")
                IN  mp_tags_set_bstr(tags, s_icy_title, bstr_splice(p1, 0, end))
           ELSE tags

\* bstr0(p): a NULL pointer gives the empty bstr
bstr0(p) == IF p = NULLP THEN <<>> ELSE Deref(p)

(***************************************************************************)
(* The stream descriptor (stream_t).  A handler pointer is TRUE when the   *)
(* handler is installed, FALSE when it is NULL; priv is the handle, 0 for  *)
(* NULL.                                                                   *)
(***************************************************************************)
NewStream(url, mode) ==
    [url |-> url, mode |-> mode, priv |-> 0, seekable |-> FALSE,
     seek |-> FALSE, fill_buffer |-> FALSE, write_buffer |-> FALSE,
     control |-> FALSE, close |-> FALSE, streaming |-> FALSE,
     demuxer |-> NULLP, lavf_type |-> NULLP, mime_type |-> NULLP]

\* what a handler returns: the descriptor, the backend, the C return value,
\* the output argument and the backend calls issued, in order
Result(s, be, ret, out, calls) ==
    [s |-> s, be |-> be, ret |-> ret, out |-> out, calls |-> calls]

\* fill_buffer closing the session when avio_read returns no data
fill_buffer_close_on_error(s, be, max_len, r, newpkt) ==
    IF s.priv = 0 THEN Result(s, be, -1, <<>>, <<>>)
    ELSE IF r <= 0
        THEN Result([s EXCEPT !.priv = 0], avio_close(be, s.priv), -1, <<>>,
                    <<Call("avio_read", be, s.priv, max_len)>>)
    ELSE LET h == s.priv
             a == be[h]
             a1 == [a EXCEPT !.pos = a.pos + r,
                             !.pkt = IF newpkt # NULLP THEN newpkt ELSE a.pkt]
         IN  Result(s, [be EXCEPT ![h] = a1], r,
                    SubSeq(Content, a.pos + 1, a.pos + r),
                    <<Call("avio_read", be, h, max_len)>>)

\* static int fill_buffer(stream_t *s, char *buffer, int max_len)
\* r is what avio_read returns, newpkt the ICY packet the backend stored
\* while reading (NULLP: none)
fill_buffer(s, be, max_len, r, newpkt) ==
    IF s.priv = 0 THEN Result(s, be, -1, <<>>, <<>>)
    ELSE LET h == s.priv
             a == be[h]
             a1 == [a EXCEPT !.pos = IF r > 0 THEN a.pos + r ELSE a.pos,
                             !.pkt = IF newpkt # NULLP THEN newpkt ELSE a.pkt]
         IN  Result(s, [be EXCEPT ![h] = a1],
                    IF r <= 0 THEN -1 ELSE r,
                    IF r <= 0 THEN <<>> ELSE SubSeq(Content, a.pos + 1, a.pos + r),
                    <<Call("avio_read", be, h, max_len)>>)

\* write_buffer without avio_flush
write_buffer_noflush(s, be, len, fail) ==
    IF s.priv = 0 THEN Result(s, be, -1, <<>>, <<>>)
    ELSE LET h == s.priv
             a1 == [be[h] EXCEPT !.buffered = be[h].buffered + len]
         IN  Result(s, [be EXCEPT ![h] = a1], IF a1.error THEN -1 ELSE len,
                    <<>>, <<Call("avio_write", be, h, len)>>)

\* static int write_buffer(stream_t *s, char *buffer, int len)
\* fail: the backend's write callback fails during this flush
write_buffer(s, be, len, fail) ==
    IF s.priv = 0 THEN Result(s, be, -1, <<>>, <<>>)
    ELSE LET h == s.priv
             a == be[h]
             \* avio_write: the bytes go to the context's buffer
             a1 == [a EXCEPT !.buffered = a.buffered + len]
             be1 == [be EXCEPT ![h] = a1]
             \* avio_flush: the buffer is written out unless the error flag
             \* is already set; a failing write-out sets the flag
             a2 == [a1 EXCEPT !.buffered = 0, !.error = a1.error \/ fail,
                              !.delivered = a1.delivered
                                            \/ (~a1.error /\ ~fail)]
             be2 == [be1 EXCEPT ![h] = a2]
         IN  Result(s, be2, IF a2.error THEN -1 ELSE len, <<>>,
                    <<Call("avio_write", be, h, len),
                      Call("avio_flush", be1, h, a1.buffered)>>)

\* static int seek(stream_t *s, int64_t newpos)
\* r is what avio_seek returns
seek(s, be, newpos, r) ==
    IF s.priv = 0 THEN Result(s, be, -1, <<>>, <<>>)
    ELSE LET h == s.priv
             be1 == IF r < 0 THEN be ELSE [be EXCEPT ![h].pos = newpos]
         IN  Result(s, be1, IF r < 0 THEN 0 ELSE 1, <<>>,
                    <<Call("avio_seek", be, h, newpos)>>)

\* static void close_f(stream_t *stream)
close_f(s, be) ==
    IF s.priv # 0
        THEN Result(s, avio_close(be, s.priv), 0, <<>>,
                    <<Call("avio_close", be, s.priv,
                           [pending |-> be[s.priv].buffered,
                            delivered |-> be[s.priv].delivered])>>)
        ELSE Result(s, be, 0, <<>>, <<>>)

\* stream_check_interrupt(stream): whether the caller asked to stop, which
\* is the value the caller's cancellation flag has at that moment
stream_check_interrupt(s, flag) == flag

\* static int interrupt_cb(void *ctx)
\* the backend calls it from inside its open, read and write loops
interrupt_cb(ctx, flag) == stream_check_interrupt(ctx, flag)

\* InterruptCB handing no callback to the backend
InterruptCB_none(s) == [callback |-> "NULL", opaque |-> "NULL"]

\* lines 219-222: AVIOInterruptCB cb = { interrupt_cb, stream }
InterruptCB(s) == [callback |-> "interrupt_cb", opaque |-> "stream"]

\* lines 164-166: each prefix of the list is tried once, in order
RECURSIVE StripPrefixes(_, _)
StripPrefixes(filename, i) ==
    IF i > Len(prefix) THEN filename
    ELSE StripPrefixes(IF StartsWith(filename, prefix[i])
                          THEN Skip(filename, Len(prefix[i]))
                          ELSE filename,
                       i + 1)

\* RewriteMms with a match that ignores case
RewriteMms_nocase(filename) ==
    IF StartsWith(filename, s_mms) \/ StartsWith(filename, s_MMS)
        THEN s_mmsh \o Skip(filename, Len(s_mms))
    ELSE IF StartsWith(filename, s_mmshttp)
        THEN s_mmsh \o Skip(filename, Len(s_mmshttp))
    ELSE filename

\* RewriteMms matching the scheme name "mms" without "://"
RewriteMms_loose(filename) ==
    IF StartsWith(filename, SubSeq(s_mms, 1, 3))
        THEN s_mmsh \o Skip(filename, Len(s_mms))
    ELSE filename

\* lines 181-187: "mms://" and "mmshttp://" become "mmsh://"
RewriteMms(filename) ==
    IF StartsWith(filename, s_mms)
        THEN s_mmsh \o Skip(filename, Len(s_mms))
    ELSE IF StartsWith(filename, s_mmshttp)
        THEN s_mmsh \o Skip(filename, Len(s_mmshttp))
    ELSE filename

\* open_reset with the two resets left out
open_reset_missing(s) == s

\* lines 154-155: stream->seek = NULL; stream->seekable = false;
open_reset(s) == [s EXCEPT !.seek = FALSE, !.seekable = FALSE]

\* DelegateRtsp matching "rtsp://" instead of "rtsp:"
DelegateRtsp_slashes(filename) == StartsWith(filename, s_rtsp \o <<"/", "/">>)

\* line 167: !strncmp(filename, "rtsp:", 5)
DelegateRtsp(filename) == StartsWith(filename, s_rtsp)

\* lines 250-258: the session and the handlers are installed
open_install(s, h, a) ==
    [s EXCEPT !.priv = h,
              !.seekable = a.seekable,
              !.seek = a.seekable,
              !.fill_buffer = TRUE,
              !.write_buffer = TRUE,
              !.control = TRUE,
              !.close = TRUE,
              !.streaming = TRUE]

\* static int open_f(stream_t *stream)
\* o is stream->opts, c the protocol's capabilities, resp the backend's
\* answer should avio_open2 be called
\* out is the list of the options logged as not set
open_f(s, be, o, c, resp) ==
    LET s0 == open_reset(s)
        flags == IF s.mode = STREAM_WRITE THEN AVIO_FLAG_WRITE
                                          ELSE AVIO_FLAG_READ
    IN  IF s.url = NULLP THEN Result(s0, be, STREAM_ERROR, <<>>, <<>>)
        ELSE
        LET fn1 == StripPrefixes(Deref(s.url), 1) IN
        IF DelegateRtsp(fn1)
            THEN Result([s0 EXCEPT !.demuxer = Ptr("lavf"),
                                   !.lavf_type = Ptr("rtsp")],
                        be, STREAM_OK, <<>>, <<>>)
        ELSE
        LET filename == RewriteMms(fn1)
            dict == BuildDict(o)
            opened == avio_open2(be, flags, c, resp)
            c_open == Call("avio_open2", be, 0,
                           [filename |-> filename, flags |-> flags,
                            cb |-> InterruptCB(s), dict |-> dict])
        IN  IF opened.err < 0
               THEN Result(s0, be, STREAM_ERROR, <<>>, <<c_open>>)
            ELSE
            LET h == opened.h
                a == opened.be[h]
                getmime == a.av_class
                s1 == IF getmime /\ a.mime # NULLP
                         THEN [s0 EXCEPT !.mime_type = a.mime]
                         ELSE s0
                s2 == IF StartsWith(filename, s_rtmp)
                         THEN [s1 EXCEPT !.demuxer = Ptr("lavf"),
                                         !.lavf_type = Ptr("flv")]
                         ELSE s1
                s3 == open_install(s2, h, a)
            IN  Result(s3, opened.be, STREAM_OK, Unconsumed(dict, c),
                       <<c_open>> \o
                       (IF getmime
                           THEN <<Call("av_opt_get", opened.be, h, "mime_type")>>
                           ELSE <<>>))

\* mark_delivered without the av_opt_set call
mark_delivered_missing(be, h) == be

\* mark_delivered clearing the packet field instead of writing "-"
mark_delivered_empty(be, h) ==
    IF be[h].pkt # NULLP THEN [be EXCEPT ![h].pkt = Ptr(<<>>)] ELSE be

\* line 315: av_opt_set(avio, "icy_metadata_packet", "-", ...), which fails
\* on a context without the option
mark_delivered(be, h) ==
    IF be[h].pkt # NULLP THEN [be EXCEPT ![h].pkt = Ptr(s_sentinel)] ELSE be

\* static struct mp_tags *read_icy(stream_t *s)
\* out is the tag set (NULLP for NULL)
read_icy(s, be) ==
    LET h == s.priv
        a == be[h]
    IN  IF ~a.av_class THEN Result(s, be, 0, NULLP, <<>>)
        ELSE
        LET icy_header == a.hdr
            icy_packet == a.pkt
            gets == <<Call("av_opt_get", be, h, "icy_metadata_headers"),
                      Call("av_opt_get", be, h, "icy_metadata_packet")>>
            packet == bstr0(icy_packet)
        IN  IF /\ (icy_header = NULLP \/ Len(Deref(icy_header)) = 0)
               /\ (icy_packet = NULLP \/ Len(Deref(icy_packet)) = 0)
               THEN Result(s, be, 0, NULLP, gets)
            ELSE IF packet = s_sentinel
               THEN Result(s, be, 0, NULLP, gets)
            ELSE
            LET res == ParseTitle(packet, ParseHeader(bstr0(icy_header), <<>>))
                be1 == mark_delivered(be, h)
            IN  Result(s, be1, 0, Ptr(res),
                       Append(gets, Call("av_opt_set", be, h,
                                         "icy_metadata_packet")))

\* NoSessionRefused without the exception for reconnect
NoSessionRefused_all(s, cmd) == s.priv = 0

\* line 102: !avio && cmd != STREAM_CTRL_RECONNECT
NoSessionRefused(s, cmd) == s.priv = 0 /\ cmd # STREAM_CTRL_RECONNECT

\* ReconnectRefused without the write_flag test
ReconnectRefused_never(s, be) == FALSE

\* line 127: avio && avio->write_flag
ReconnectRefused(s, be) == s.priv # 0 /\ be[s.priv].write_flag

\* reconnect without s->priv = NULL
reconnect_keep_priv(s, be, o, c, resp) ==
    LET cl == close_f(s, be)
        op == open_f(cl.s, cl.be, o, c, resp)
    IN  Result(op.s, op.be, op.ret, NULLP, cl.calls \o op.calls)

\* reconnect that keeps a session that is still there
reconnect_resume(s, be, o, c, resp) ==
    IF s.priv # 0 THEN Result(s, be, STREAM_OK, NULLP, <<>>)
    ELSE LET op == open_f(s, be, o, c, resp)
         IN  Result(op.s, op.be, op.ret, NULLP, op.calls)

\* reconnect trying open_f a second time when the first attempt fails
reconnect_retry(s, be, o, c, resp) ==
    LET cl == close_f(s, be)
        s1 == [cl.s EXCEPT !.priv = 0]
        op == open_f(s1, cl.be, o, c, resp)
        again == open_f(op.s, op.be, o, c, resp)
    IN  IF op.ret = STREAM_OK
           THEN Result(op.s, op.be, op.ret, NULLP, cl.calls \o op.calls)
           ELSE Result(again.s, again.be, again.ret, NULLP,
                       cl.calls \o op.calls \o again.calls)

\* lines 130-132: close_f(s); s->priv = NULL; return open_f(s);
reconnect(s, be, o, c, resp) ==
    LET cl == close_f(s, be)
        s1 == [cl.s EXCEPT !.priv = 0]
        op == open_f(s1, cl.be, o, c, resp)
    IN  Result(op.s, op.be, op.ret, NULLP, cl.calls \o op.calls)

\* control_default returning the error result
control_default_error(s, be) == Result(s, be, STREAM_ERROR, NULLP, <<>>)

\* line 135: return STREAM_UNSUPPORTED;
control_default(s, be) == Result(s, be, STREAM_UNSUPPORTED, NULLP, <<>>)

\* static int control(stream_t *s, int cmd, void *arg)
\* bk holds what the backend answers: size (avio_size), seekr
\* (avio_seek_time) and resp (avio_open2)
control(s, be, cmd, o, c, bk) ==
    IF NoSessionRefused(s, cmd)
        THEN Result(s, be, -1, NULLP, <<>>)
    ELSE IF cmd = STREAM_CTRL_GET_SIZE
        THEN IF bk.size >= 0
                THEN Result(s, be, 1, Ptr(bk.size),
                            <<Call("avio_size", be, s.priv, 0)>>)
                ELSE Result(s, be, STREAM_UNSUPPORTED, NULLP,
                            <<Call("avio_size", be, s.priv, 0)>>)
    ELSE IF cmd = STREAM_CTRL_AVSEEK
        THEN IF bk.seekr >= 0
                THEN Result(s, [be EXCEPT ![s.priv].pos = bk.seekr], 1, NULLP,
                            <<Call("avio_seek_time", be, s.priv, 0)>>)
                ELSE Result(s, be, STREAM_UNSUPPORTED, NULLP,
                            <<Call("avio_seek_time", be, s.priv, 0)>>)
    ELSE IF cmd = STREAM_CTRL_GET_METADATA
        THEN LET r == read_icy(s, be)
             IN  IF r.out = NULLP
                    THEN Result(r.s, r.be, STREAM_UNSUPPORTED, NULLP, r.calls)
                    ELSE Result(r.s, r.be, 1, r.out, r.calls)
    ELSE IF cmd = STREAM_CTRL_RECONNECT
        THEN IF ReconnectRefused(s, be)
                THEN control_default(s, be)
                ELSE reconnect(s, be, o, c, bk.resp)
    ELSE control_default(s, be)

(***************************************************************************)
(* The state machine.  The caller (stream.c) creates the descriptor with   *)
(* the URL and the mode, calls open_f once, frees the descriptor when that *)
(* fails, and otherwise drives the handlers open_f installed, one call at  *)
(* a time, until it calls close.  last records the last handler call: its  *)
(* return value, output argument, the backend calls it issued and the      *)
(* backend's answer to avio_open2.                                         *)
(***************************************************************************)
s_a == <<"a">>

\* the URL most behaviours open
PlainUrl == Ptr(s_http \o s_a)

\* URLs of the session-signalling scheme, bare and behind wrapper prefixes
RtspUrls ==
    {Ptr(s_rtsp \o s_a), Ptr(s_lavf \o s_rtsp \o s_a),
     Ptr(s_ffmpeg \o s_rtsp \o s_a),
     Ptr(s_lavf \o s_ffmpeg \o s_rtsp \o s_a)}

Urls ==
    {NULLP, Ptr(<<>>), PlainUrl, Ptr(s_rtmp \o <<":">> \o s_a)} \cup RtspUrls

Modes == {STREAM_READ, STREAM_WRITE}

\* what a Reconnect found: whether seek was installed, the old handle's
\* read position and whether its packet field held the sentinel
NoPre == [seek |-> FALSE, pos |-> 0, sentinel |-> FALSE]

Pre(cmd) ==
    IF cmd = STREAM_CTRL_RECONNECT /\ stream.priv # 0
        THEN [seek |-> stream.seek, pos |-> avio[stream.priv].pos,
              sentinel |-> avio[stream.priv].pkt = Ptr(s_sentinel)]
        ELSE NoPre

Last(op, cmd, r, resp) ==
    [op |-> op, cmd |-> cmd, ret |-> r.ret, out |-> r.out, calls |-> r.calls,
     resp |-> resp, pre |-> Pre(cmd)]

\* the combinations of URL, mode, protocol capabilities and configuration a
\* behaviour starts from: every URL read over an http-like protocol, the
\* plain URL read over every kind of protocol and with every configuration,
\* and the plain URL written
InitCase(u, m, c, o) ==
    \/ m = STREAM_READ /\ c = "http" /\ o = DefaultOpts
    \/ u = PlainUrl /\ m = STREAM_READ /\ o = DefaultOpts
    \/ u = PlainUrl /\ m = STREAM_READ /\ c = "http"
    \/ u = PlainUrl /\ m = STREAM_WRITE /\ c = "class" /\ o = DefaultOpts

Init ==
    /\ \E u \in Urls, m \in Modes, c \in Caps, o \in Configs :
         /\ InitCase(u, m, c, o)
         /\ stream = NewStream(u, m)
         /\ caps = c
         /\ opts = o
    /\ avio = NoHandles
    /\ pc = "new"
    /\ ncloses = 0
    /\ last = [op |-> "none", cmd |-> "none", ret |-> 0, out |-> NULLP,
               calls |-> <<>>, resp |-> NoResponse, pre |-> NoPre]

\* what the backend may answer when this stream's URL is opened: no protocol
\* opens an empty file name
BackendAnswers ==
    IF stream.url # NULLP
       /\ RewriteMms(StripPrefixes(Deref(stream.url), 1)) = <<>>
        THEN OpenFailures
        ELSE OpenResponses(caps)

\* stream.c opens the stream: open_f on the new descriptor
Open ==
    /\ pc = "new"
    /\ \E resp \in BackendAnswers :
         LET r == open_f(stream, avio, opts, caps, resp)
         IN  /\ stream' = r.s
             /\ avio' = r.be
             /\ pc' = IF r.ret = STREAM_OK THEN "opened" ELSE "failed"
             /\ last' = Last("open", "none", r, resp)
    /\ UNCHANGED <<caps, opts, ncloses>>

\* the backend's answers to avio_read on the session's handle
ReadResults(max_len) ==
    IF stream.priv = 0 THEN {-1}
    ELSE {AVERROR_EXIT, -1, 0}
         \cup 1..Min(max_len, Len(Content) - avio[stream.priv].pos)

\* ICY packets arrive in-band: the backend may store one while it reads
NewPackets(r) ==
    IF stream.priv # 0 /\ r > 0 /\ avio[stream.priv].pkt # NULLP
        THEN {NULLP} \cup {Ptr(v) : v \in PacketVals}
        ELSE {NULLP}

\* the caller reads from a read-mode stream
Read ==
    /\ pc = "opened"
    /\ stream.fill_buffer
    /\ stream.mode = STREAM_READ
    /\ \E max_len \in 1..MaxLen :
         \E r \in ReadResults(max_len) :
           \E newpkt \in NewPackets(r) :
             LET res == fill_buffer(stream, avio, max_len, r, newpkt)
             IN  /\ stream' = res.s
                 /\ avio' = res.be
                 /\ last' = Last("read", "none", res, NoResponse)
    /\ UNCHANGED <<caps, opts, pc, ncloses>>

\* the caller writes to a write-mode stream
Write ==
    /\ pc = "opened"
    /\ stream.write_buffer
    /\ stream.mode = STREAM_WRITE
    /\ \E len \in 1..MaxLen :
         \E fail \in BOOLEAN :
           LET res == write_buffer(stream, avio, len, fail)
           IN  /\ stream' = res.s
               /\ avio' = res.be
               /\ last' = Last("write", "none", res, NoResponse)
    /\ UNCHANGED <<caps, opts, pc, ncloses>>

\* the caller seeks only through an installed seek handler
Seek ==
    /\ pc = "opened"
    /\ stream.seek
    /\ \E newpos \in 0..Len(Content) :
         \E r \in {-1, newpos} :
           LET res == seek(stream, avio, newpos, r)
           IN  /\ stream' = res.s
               /\ avio' = res.be
               /\ last' = Last("seek", "none", res, NoResponse)
    /\ UNCHANGED <<caps, opts, pc, ncloses>>

NoBk == [size |-> -1, seekr |-> -1, resp |-> NoResponse]

\* one call of the control handler
Control(cmd, bk) ==
    /\ pc = "opened"
    /\ stream.control
    /\ LET res == control(stream, avio, cmd, opts, caps, bk)
       IN  /\ stream' = res.s
           /\ avio' = res.be
           /\ last' = Last("control", cmd, res, bk.resp)
    /\ UNCHANGED <<caps, opts, pc, ncloses>>

GetSize ==
    \E size \in {-1, 0, Len(Content)} :
        Control(STREAM_CTRL_GET_SIZE, [NoBk EXCEPT !.size = size])

AVSeek ==
    \E seekr \in {-1} \cup 0..Len(Content) :
        Control(STREAM_CTRL_AVSEEK, [NoBk EXCEPT !.seekr = seekr])

GetMetadata == Control(STREAM_CTRL_GET_METADATA, NoBk)

Reconnect ==
    /\ Cardinality(Used(avio)) < MaxOpens
    /\ \E resp \in BackendAnswers :
         Control(STREAM_CTRL_RECONNECT, [NoBk EXCEPT !.resp = resp])

OtherControl == \E cmd \in OtherCmds : Control(cmd, NoBk)

\* the caller closes the stream.  close_f leaves the descriptor as it is, so
\* the close handler stays installed and can be invoked again; avio records
\* how many avio_close calls each handle got
Close ==
    /\ pc \in {"opened", "closed"}
    /\ stream.close
    /\ ncloses < MaxCloseCalls
    /\ LET res == close_f(stream, avio)
       IN  /\ stream' = res.s
           /\ avio' = res.be
           /\ last' = Last("close", "none", res, NoResponse)
    /\ pc' = "closed"
    /\ ncloses' = ncloses + 1
    /\ UNCHANGED <<caps, opts>>

Next ==
    \/ Open
    \/ Read
    \/ Write
    \/ Seek
    \/ GetSize
    \/ AVSeek
    \/ GetMetadata
    \/ Reconnect
    \/ OtherControl
    \/ Close

Spec == Init /\ [][Next]_vars

(***************************************************************************)
(* A second environment, for what open_f and read_icy compute from their   *)
(* inputs: the stream is opened once and then read and asked for metadata. *)
(* The URL is any sequence of at most MaxWrap wrapper prefixes, a scheme   *)
(* and a suffix; the configuration carries any override list of at most    *)
(* MaxOverrides entries; the ICY header block and packets are drawn from   *)
(* the texts below.                                                        *)
(***************************************************************************)
\* wrapper prefixes in front of a URL
MaxWrap == 2
\* entries of the override list (stream_lavf_opts->avopts)
MaxOverrides == 2

\* every concatenation of at most n wrapper prefixes
RECURSIVE WrapSeqs(_)
WrapSeqs(n) ==
    IF n = 0 THEN {<<>>}
    ELSE LET w == WrapSeqs(n - 1)
         IN  w \cup {prefix[i] \o x : i \in 1..Len(prefix), x \in w}

Schemes ==
    {<<>>, s_http, s_rtsp, s_mms, s_MMS, s_mmshttp, s_mmsh,
     s_rtmp \o <<":">>}

Suffixes == {<<>>, s_a, <<"a", "?", "b">>}

OpenUrls ==
    {NULLP} \cup
    {Ptr(w \o sch \o suf) :
        w \in WrapSeqs(MaxWrap), sch \in Schemes, suf \in Suffixes}

\* the keys open_f sets from the structured configuration, and one it does
\* not set
OverrideKeys ==
    {"user-agent", "cookies", "tls_verify", "ca_file", "headers", "icy",
     "timeout"}

OverrideText == <<"o1", "o2", "o3", "o4">>

\* the value of the i-th override entry: a header block for "headers", a
\* plain string otherwise
OverrideValue(key, i) ==
    IF key = "headers" THEN <<<<"H: ", OverrideText[i], CR, LF>>>>
                       ELSE OverrideText[i]

RECURSIVE KeySeqs(_)
KeySeqs(n) ==
    IF n = 0 THEN {<<>>}
    ELSE LET k == KeySeqs(n - 1)
         IN  k \cup {Append(x, key) : x \in k, key \in OverrideKeys}

OverrideLists ==
    {[i \in 1..Len(ks) |-> <<ks[i], OverrideValue(ks[i], i)>>] :
        ks \in KeySeqs(MaxOverrides)}

OpenConfigs ==
    {[b EXCEPT !.avopts = ov] :
        b \in {DefaultOpts, FullOpts}, ov \in OverrideLists}

\* the header block of the example
h_station ==
    <<"S", "t", "a", "t", "i", "o", "n", "N", "a", "m", "e", ":", " ", "T",
      "e", "s", "t", CR, LF>>

\* two lines, the first ended by LF and the second by CRLF
h_two ==
    <<"N", ":", " ", "T", LF, "M", ":", " ", "U", CR, LF>>

\* a line without ": " and a last line without a line break
h_mixed ==
    <<"N", ":", " ", "T", CR, LF, "X", CR, LF, "M", ":", " ", "U">>

\* the same key on two lines
h_dup ==
    <<"N", ":", " ", "T", CR, LF, "N", ":", " ", "U", CR, LF>>

\* a value that contains ": "
h_colon ==
    <<"N", ":", " ", "a", ":", " ", "b", CR, LF>>

\* the packet of the example
p_playing ==
    <<"S", "t", "r", "e", "a", "m", "T", "i", "t", "l", "e", "=", "'", "N",
      "o", "w", " ", "P", "l", "a", "y", "i", "n", "g", "'", ";">>

\* a second title
p_y ==
    <<"S", "t", "r", "e", "a", "m", "T", "i", "t", "l", "e", "=", "'", "y",
      "'", ";">>

\* a packet without the marker
p_url ==
    <<"S", "t", "r", "e", "a", "m", "U", "r", "l", "=", "'", "u", "'", ";">>

\* the marker after another field
p_both ==
    <<"S", "t", "r", "e", "a", "m", "U", "r", "l", "=", "'", "u", "'", ";",
      "S", "t", "r", "e", "a", "m", "T", "i", "t", "l", "e", "=", "'", "y",
      "'", ";">>

\* a title with a single quote in it
p_apos ==
    <<"S", "t", "r", "e", "a", "m", "T", "i", "t", "l", "e", "=", "'", "a",
      "'", "b", "'", ";">>

\* a title whose closing quote is missing
p_open ==
    <<"S", "t", "r", "e", "a", "m", "T", "i", "t", "l", "e", "=", "'", "z">>

IcyHeaders == {<<>>, s_hdr, h_station, h_two, h_mixed, h_dup, h_colon}

IcyPackets ==
    {<<>>, s_title, p_playing, p_y, p_url, p_both, p_apos, p_open}

\* what avio_open2 answers for an ICY stream
IcyResponses ==
    [err : {0}, seekable : {FALSE}, hdr : {Ptr(v) : v \in IcyHeaders},
     pkt : {Ptr(v) : v \in IcyPackets}, mime : {Ptr(<<>>)}]

\* the combinations of URL, protocol capabilities and configuration a
\* behaviour of this environment starts from: every URL with the default
\* configuration, the plain URL with every configuration, and the plain URL
\* over an http-like protocol
OpenCases ==
    {<<u, "class", DefaultOpts>> : u \in OpenUrls}
    \cup {<<PlainUrl, "class", o>> : o \in OpenConfigs}
    \cup {<<PlainUrl, "http", o>> : o \in {DefaultOpts, FullOpts}}

InitOpen ==
    /\ \E x \in OpenCases :
         /\ stream = NewStream(x[1], STREAM_READ)
         /\ caps = x[2]
         /\ opts = x[3]
    /\ avio = NoHandles
    /\ pc = "new"
    /\ ncloses = 0
    /\ last = [op |-> "none", cmd |-> "none", ret |-> 0, out |-> NULLP,
               calls |-> <<>>, resp |-> NoResponse, pre |-> NoPre]

OpenAnswers ==
    IF caps = "http" /\ opts = DefaultOpts
        THEN OpenFailures \cup IcyResponses
        ELSE BackendAnswers

\* stream.c opens the stream: open_f on the new descriptor
OpenAny ==
    /\ pc = "new"
    /\ \E resp \in OpenAnswers :
         LET r == open_f(stream, avio, opts, caps, resp)
         IN  /\ stream' = r.s
             /\ avio' = r.be
             /\ pc' = IF r.ret = STREAM_OK THEN "opened" ELSE "failed"
             /\ last' = Last("open", "none", r, resp)
    /\ UNCHANGED <<caps, opts, ncloses>>

\* a read during which the backend stores a new ICY packet
ReadIcy ==
    /\ pc = "opened"
    /\ stream.fill_buffer
    /\ stream.priv # 0
    /\ avio[stream.priv].pkt # NULLP
    /\ \E max_len \in 1..MaxLen :
         \E r \in ReadResults(max_len) \cap 1..max_len :
           \E v \in IcyPackets \ {<<>>} :
             LET res == fill_buffer(stream, avio, max_len, r, Ptr(v))
             IN  /\ stream' = res.s
                 /\ avio' = res.be
                 /\ last' = Last("read", "none", res, NoResponse)
    /\ UNCHANGED <<caps, opts, pc, ncloses>>

NextOpen ==
    \/ OpenAny
    \/ ReadIcy
    \/ GetMetadata

OpenSpec == InitOpen /\ [][NextOpen]_vars

(***************************************************************************)
(* Properties.                                                             *)
(***************************************************************************)
\* what the backend may answer to the calls control() makes
AllBk ==
    [size : {-1, 0, Len(Content)}, seekr : {-1} \cup 0..Len(Content),
     resp : {NoResponse}]

\* the control handler can be called and a reopen stays within MaxOpens
Callable == pc = "opened" /\ stream.control
CanReopen == Cardinality(Used(avio)) < MaxOpens

IsReconnect == last.op = "control" /\ last.cmd = STREAM_CTRL_RECONNECT

\* C1: a Reconnect on a read-mode session whose reopen fails leaves no
\* session (priv is NULL, not the closed handle), seek is uninstalled and
\* seekable is false; while there is no session, fill_buffer, write_buffer
\* and seek return an error and issue no backend call.
C1_FailedReconnectLeavesNoSession ==
    /\ (IsReconnect /\ stream.mode = STREAM_READ /\ last.ret # STREAM_OK)
         => /\ stream.priv = 0
            /\ ~stream.seek
            /\ ~stream.seekable
            /\ Live(avio) = {}
    /\ stream.priv = 0
         => /\ ~stream.seek
            /\ \A n \in 1..MaxLen, r \in -1..MaxLen :
                 LET x == fill_buffer(stream, avio, n, r, NULLP)
                 IN  x.ret = -1 /\ x.calls = <<>> /\ x.be = avio
            /\ \A n \in 1..MaxLen, fail \in BOOLEAN :
                 LET x == write_buffer(stream, avio, n, fail)
                 IN  x.ret = -1 /\ x.calls = <<>> /\ x.be = avio
            /\ \A newpos \in 0..Len(Content) : \A r \in {-1, newpos} :
                 LET x == seek(stream, avio, newpos, r)
                 IN  x.ret = -1 /\ x.calls = <<>> /\ x.be = avio

\* a Read after a failed Reconnect returned the error without a backend call
C1_Witness ==
    /\ pc = "opened"
    /\ stream.priv = 0
    /\ last.op = "read"
    /\ last.ret = -1
    /\ last.calls = <<>>

\* C2: at most one handle is live, no handle is closed twice, no backend
\* operation is issued on a closed handle, no handle is left open after
\* Close, and a second Close performs no backend call.
C2_HandleDiscipline ==
    /\ Cardinality(Live(avio)) <= 1
    /\ \A h \in Handles : avio[h].closes <= 1
    /\ \A i \in 1..Len(last.calls) :
         last.calls[i].f # "avio_open2" => last.calls[i].live
    /\ pc = "closed" => Live(avio) = {}
    /\ (last.op = "close" /\ ncloses >= 2) => last.calls = <<>>

\* the part of C2 that the code keeps: the discipline up to the first Close
C2_UpToFirstClose == ncloses <= 1 => C2_HandleDiscipline

\* C3: Reconnect on a write-mode session returns unsupported, makes no
\* backend call and changes nothing; Reconnect on a read-mode session closes
\* the current handle and then calls the backend open.
C3_ReconnectByMode ==
    /\ (Callable /\ stream.priv # 0 /\ CanReopen) =>
         \A resp \in BackendAnswers :
           LET r == control(stream, avio, STREAM_CTRL_RECONNECT, opts, caps,
                            [NoBk EXCEPT !.resp = resp])
           IN  IF stream.mode = STREAM_WRITE
                  THEN /\ r.ret = STREAM_UNSUPPORTED
                       /\ r.calls = <<>>
                       /\ r.s = stream
                       /\ r.be = avio
                  ELSE /\ Len(r.calls) >= 2
                       /\ r.calls[1].f = "avio_close"
                       /\ r.calls[1].h = stream.priv
                       /\ r.calls[1].live
                       /\ r.calls[2].f = "avio_open2"
                       /\ r.be[stream.priv].st = "closed"
    /\ (IsReconnect /\ stream.mode = STREAM_WRITE)
         => last.ret = STREAM_UNSUPPORTED /\ last.calls = <<>>
    /\ (IsReconnect /\ stream.mode = STREAM_READ)
         => \E i \in 1..Len(last.calls) : last.calls[i].f = "avio_open2"

\* a Reconnect was refused on a write-mode session, which is still open
C3_Witness ==
    /\ IsReconnect
    /\ stream.mode = STREAM_WRITE
    /\ last.ret = STREAM_UNSUPPORTED
    /\ stream.priv # 0
    /\ Live(avio) = {stream.priv}

C5_SeekIffSeekableSession ==
    pc \in {"new", "opened", "failed"} =>
        LET ok == /\ stream.priv # 0
                  /\ avio[stream.priv].st = "open"
                  /\ avio[stream.priv].seekable
        IN  (stream.seek <=> ok) /\ (stream.seekable <=> ok)

\* a Reconnect took a seekable session to a non-seekable one
C5_Witness ==
    /\ IsReconnect
    /\ last.ret = STREAM_OK
    /\ last.pre.seek
    /\ stream.priv # 0
    /\ ~avio[stream.priv].seekable
    /\ ~stream.seek

\* the descriptor without the identity of its handle
NoPriv(s) == [s EXCEPT !.priv = 0]

\* C6: after a successful Reconnect on a read-mode session the descriptor
\* and the handle are those open_f produces on a new descriptor with the
\* same URL and mode and the same backend answer: the only live handle is
\* the new one, at offset 0, and every Read returns on it what it returns on
\* the freshly opened stream.
C6_ReconnectLikeFreshOpen ==
    (IsReconnect /\ last.ret = STREAM_OK /\ stream.mode = STREAM_READ) =>
        LET fresh == open_f(NewStream(stream.url, stream.mode), NoHandles,
                            opts, caps, last.resp)
        IN  /\ fresh.ret = STREAM_OK
            /\ stream.priv # 0
            /\ Live(avio) = {stream.priv}
            /\ NoPriv(stream) = NoPriv(fresh.s)
            /\ avio[stream.priv] = fresh.be[fresh.s.priv]
            /\ avio[stream.priv].pos = 0
            /\ \A n \in 1..MaxLen : \A r \in -1..Min(n, Len(Content)) :
                 LET x == fill_buffer(stream, avio, n, r, NULLP)
                     y == fill_buffer(fresh.s, fresh.be, n, r, NULLP)
                 IN  /\ x.ret = y.ret
                     /\ x.out = y.out
                     /\ x.be[stream.priv] = y.be[fresh.s.priv]

\* a Reconnect succeeded on a session that had been read from, had the
\* sentinel written and was seekable, and the new session is not seekable
C6_Witness ==
    /\ IsReconnect
    /\ last.ret = STREAM_OK
    /\ stream.mode = STREAM_READ
    /\ last.pre.pos > 0
    /\ last.pre.sentinel
    /\ last.pre.seek
    /\ ~stream.seek

\* C7: a Write on an open session calls avio_write and then avio_flush on
\* the session's handle and returns -1 if the error flag is set after the
\* flush and len otherwise; no handle has unflushed bytes between calls, and
\* avio_close finds none pending.
C7_WriteFlushes ==
    /\ (last.op = "write" /\ stream.priv # 0) =>
         /\ Len(last.calls) = 2
         /\ last.calls[1].f = "avio_write"
         /\ last.calls[2].f = "avio_flush"
         /\ \A i \in 1..2 : last.calls[i].h = stream.priv /\ last.calls[i].live
         /\ last.calls[2].arg >= last.calls[1].arg
         /\ last.ret = IF avio[stream.priv].error THEN -1
                                                  ELSE last.calls[1].arg
    /\ \A h \in Handles : avio[h].buffered = 0
    /\ \A i \in 1..Len(last.calls) :
         last.calls[i].f = "avio_close" => last.calls[i].arg.pending = 0

\* a write-mode session whose writes were delivered was closed
C7_Witness ==
    /\ last.op = "close"
    /\ stream.mode = STREAM_WRITE
    /\ Len(last.calls) = 1
    /\ last.calls[1].arg.delivered
    /\ last.calls[1].arg.pending = 0

\* C8: with no session, every control operation but Reconnect fails, issues
\* no backend call and changes nothing; Reconnect is accepted and is open_f
\* on the descriptor.
C8_NoSessionControl ==
    (Callable /\ stream.priv = 0) =>
        /\ \A cmd \in Cmds \ {STREAM_CTRL_RECONNECT}, bk \in AllBk :
             LET r == control(stream, avio, cmd, opts, caps, bk)
             IN  /\ r.ret # STREAM_OK
                 /\ r.ret = -1
                 /\ r.calls = <<>>
                 /\ r.s = stream
                 /\ r.be = avio
        /\ CanReopen =>
             \A resp \in BackendAnswers :
               LET r == control(stream, avio, STREAM_CTRL_RECONNECT, opts,
                                caps, [NoBk EXCEPT !.resp = resp])
                   o == open_f(stream, avio, opts, caps, resp)
               IN  /\ r.s = o.s
                   /\ r.be = o.be
                   /\ r.ret = o.ret
                   /\ r.calls = o.calls
                   /\ Len(r.calls) >= 1
                   /\ r.calls[1].f = "avio_open2"

\* a Get-size call failed on a stream without a session
C8_Witness ==
    /\ pc = "opened"
    /\ stream.priv = 0
    /\ last.op = "control"
    /\ last.cmd = STREAM_CTRL_GET_SIZE
    /\ last.ret = -1
    /\ last.calls = <<>>

\* C9: with or without a session, control() returns STREAM_UNSUPPORTED, not
\* STREAM_ERROR, for a code it has no case for, and changes nothing.
C9_UnknownOpUnsupported ==
    /\ Callable =>
         \A cmd \in OtherCmds :
           LET r == control(stream, avio, cmd, opts, caps, NoBk)
           IN  /\ r.ret = STREAM_UNSUPPORTED
               /\ r.ret # STREAM_ERROR
               /\ r.calls = <<>>
               /\ r.s = stream
               /\ r.be = avio
    /\ (last.op = "control" /\ last.cmd \in OtherCmds)
         => last.ret = STREAM_UNSUPPORTED /\ last.calls = <<>>

\* a code control() does not know was answered, once without a session
C9_Witness ==
    /\ last.op = "control"
    /\ last.cmd \in OtherCmds
    /\ last.ret = STREAM_UNSUPPORTED
    /\ stream.priv = 0

\* C10: open_f on an rtsp URL (bare or behind wrapper prefixes) returns
\* STREAM_OK without a backend call; no session is held, demuxer is "lavf",
\* lavf_type is "rtsp" and no handler is installed.
C10_RtspDelegated ==
    (stream.url \in RtspUrls /\ pc # "new") =>
        /\ pc = "opened"
        /\ last.op = "open"
        /\ last.ret = STREAM_OK
        /\ last.calls = <<>>
        /\ stream.priv = 0
        /\ Used(avio) = {}
        /\ stream.demuxer = Ptr("lavf")
        /\ stream.lavf_type = Ptr("rtsp")
        /\ ~stream.fill_buffer
        /\ ~stream.write_buffer
        /\ ~stream.seek
        /\ ~stream.control
        /\ ~stream.close

\* an rtsp URL behind both wrapper prefixes was opened
C10_Witness ==
    /\ stream.url = Ptr(s_lavf \o s_ffmpeg \o s_rtsp \o s_a)
    /\ pc = "opened"
    /\ last.ret = STREAM_OK

\* C11: open_f on a missing URL or on an empty URL returns STREAM_ERROR
\* without calling avio_open2, and no session is held afterwards.
C11_NoUrlRejected ==
    (stream.url \in {NULLP, Ptr(<<>>)} /\ pc # "new") =>
        /\ pc = "failed"
        /\ last.op = "open"
        /\ last.ret = STREAM_ERROR
        /\ last.calls = <<>>
        /\ stream.priv = 0
        /\ Used(avio) = {}

\* the part of C11 that the code keeps: the missing URL is rejected before
\* the backend is called, and the empty URL, which the backend refuses, ends
\* in STREAM_ERROR with no session
C11_MissingUrlRejected ==
    /\ (stream.url = NULLP /\ pc # "new") =>
          /\ pc = "failed"
          /\ last.ret = STREAM_ERROR
          /\ last.calls = <<>>
          /\ stream.priv = 0
    /\ (stream.url = Ptr(<<>>) /\ pc # "new") =>
          /\ pc = "failed"
          /\ last.ret = STREAM_ERROR
          /\ stream.priv = 0
          /\ Len(last.calls) = 1
          /\ last.calls[1].f = "avio_open2"
          /\ last.calls[1].arg.filename = <<>>

\* the avio_open2 calls among the backend calls of the last handler call
OpenCalls == SelectSeq(last.calls, LAMBDA x : x.f = "avio_open2")

\* the stream was opened and nothing else was done since
JustOpened == last.op = "open" /\ pc # "new" /\ stream.url # NULLP

\* C12: for every URL u and each wrapper prefix p, open_f on p + u gives
\* what open_f on u gave: the same result, the same backend calls (so the
\* same file name handed to avio_open2, or the same delegation), the same
\* backend state and, but for the url field, the same descriptor.
C12_WrapperTransparent ==
    JustOpened =>
        \A i \in 1..Len(prefix) :
          LET u == Deref(stream.url)
              w == open_f(NewStream(Ptr(prefix[i] \o u), stream.mode),
                          NoHandles, opts, caps, last.resp)
          IN  /\ w.ret = last.ret
              /\ w.calls = last.calls
              /\ w.be = avio
              /\ [w.s EXCEPT !.url = stream.url] = stream

\* the part of C12 that the code keeps: a wrapper prefix in front of a URL
\* that begins with no wrapper prefix is transparent, and so is "lavf://" in
\* front of a URL that begins with "ffmpeg://" and with no second wrapper
C12_OneWrapperTransparent ==
    JustOpened =>
        \A i \in 1..Len(prefix) :
          LET u == Deref(stream.url)
              bare(x) == \A j \in 1..Len(prefix) : ~StartsWith(x, prefix[j])
              covered ==
                \/ bare(u)
                \/ /\ i = 1
                   /\ StartsWith(u, s_ffmpeg)
                   /\ bare(Skip(u, Len(s_ffmpeg)))
              w == open_f(NewStream(Ptr(prefix[i] \o u), stream.mode),
                          NoHandles, opts, caps, last.resp)
          IN  covered =>
                /\ w.ret = last.ret
                /\ w.calls = last.calls
                /\ w.be = avio
                /\ [w.s EXCEPT !.url = stream.url] = stream

\* C13: open_f on "mms://" + s calls avio_open2 with "mmsh://" + s, and
\* open_f on "MMS://" + s calls it with "MMS://" + s, for every suffix s.
C13_MmsRewritten ==
    JustOpened =>
        \A suf \in Suffixes :
          /\ stream.url = Ptr(s_mms \o suf) =>
                /\ Len(OpenCalls) = 1
                /\ OpenCalls[1].arg.filename = s_mmsh \o suf
          /\ stream.url = Ptr(s_MMS \o suf) =>
                /\ Len(OpenCalls) = 1
                /\ OpenCalls[1].arg.filename = s_MMS \o suf

\* "mms://a?b" was opened: the backend got "mmsh://a?b" and opened it
C13_Witness ==
    /\ stream.url = Ptr(s_mms \o <<"a", "?", "b">>)
    /\ last.op = "open"
    /\ last.ret = STREAM_OK
    /\ last.calls[1].arg.filename = s_mmsh \o <<"a", "?", "b">>
    /\ stream.priv # 0

\* C14 as stated: whenever the URL without its wrapper prefixes does not
\* begin with "mms://", avio_open2 gets it unchanged.
C14_OnlyMmsRewritten ==
    JustOpened =>
        LET fn == StripPrefixes(Deref(stream.url), 1)
        IN  ~StartsWith(fn, s_mms) =>
              \A i \in 1..Len(OpenCalls) : OpenCalls[i].arg.filename = fn

\* C14 amended: two alias prefixes are rewritten, "mms://" and
\* "mmshttp://"; whenever the URL without its wrapper prefixes begins with
\* neither, avio_open2 gets it unchanged, and "mmshttp://" + s is handed
\* over as "mmsh://" + s.
C14_TwoAliasesRewritten ==
    JustOpened =>
        LET fn == StripPrefixes(Deref(stream.url), 1)
        IN  /\ (~StartsWith(fn, s_mms) /\ ~StartsWith(fn, s_mmshttp)) =>
                  \A i \in 1..Len(OpenCalls) : OpenCalls[i].arg.filename = fn
            /\ \A suf \in Suffixes :
                  stream.url = Ptr(s_mmshttp \o suf) =>
                    /\ Len(OpenCalls) = 1
                    /\ OpenCalls[1].arg.filename = s_mmsh \o suf

\* "mmsh://a" was opened behind a wrapper prefix and handed over unchanged
C14_Witness ==
    /\ stream.url = Ptr(s_lavf \o s_mmsh \o s_a)
    /\ last.op = "open"
    /\ last.ret = STREAM_OK
    /\ last.calls[1].arg.filename = s_mmsh \o s_a

\* the value the dictionary d holds for key (d has one entry for it)
DictValue(d, key) == (CHOOSE e \in {d[i] : i \in 1..Len(d)} : e[1] = key)[2]

\* C15: the dictionary handed to avio_open2 has exactly one entry for each
\* key of the override list, with the value of the last override entry of
\* that key, whether or not the structured configuration set the key; and
\* whenever avio_open2 succeeds, open_f returns STREAM_OK, whatever entries
\* the backend left in the dictionary.
C15_OverridesWin ==
    (JustOpened /\ OpenCalls # <<>>) =>
        LET d == OpenCalls[1].arg.dict
            ov == opts.avopts
        IN  /\ \A i \in 1..Len(ov) :
                  (\A j \in (i + 1)..Len(ov) : ov[j][1] # ov[i][1]) =>
                    /\ Cardinality({n \in 1..Len(d) : d[n][1] = ov[i][1]}) = 1
                    /\ DictValue(d, ov[i][1]) = ov[i][2]
            /\ last.resp.err >= 0 =>
                  /\ last.ret = STREAM_OK
                  /\ stream.priv # 0
                  /\ last.out = SelectSeq(d, LAMBDA e :
                                   ~(caps = "http" /\ e[1] \in
                                       {"user-agent", "cookies", "headers",
                                        "icy"}))

\* an open succeeded although the backend consumed no option; the override
\* list replaced the user agent and the icy flag the configuration had set
C15_Witness ==
    /\ JustOpened
    /\ last.ret = STREAM_OK
    /\ caps = "class"
    /\ opts.network_useragent = Ptr("ua")
    /\ opts.avopts = <<<<"icy", "o1">>, <<"user-agent", "o2">>>>
    /\ last.out = last.calls[1].arg.dict
    /\ Len(last.out) = 6
    /\ DictValue(last.calls[1].arg.dict, "user-agent") = "o2"
    /\ DictValue(last.calls[1].arg.dict, "icy") = "o1"

\* a backend answer to avio_open2 that fails with the code e
FailedWith(e) == [NoResponse EXCEPT !.err = e]

\* C16: every avio_open2 call, of the first open and of each Reconnect,
\* carries the callback interrupt_cb bound to the stream, and interrupt_cb
\* returns the caller's flag and nothing else.  When the backend stops on
\* cancellation (AVERROR_EXIT), open_f and Reconnect end as they do for any
\* other failed avio_open2 (STREAM_ERROR, no session), fill_buffer returns
\* -1 as for any non-positive count and keeps the session, and a write whose
\* flush was stopped returns -1 and keeps the session.
C16_CancelIsFailure ==
    /\ \A i \in 1..Len(OpenCalls) :
         OpenCalls[i].arg.cb = [callback |-> "interrupt_cb",
                                opaque |-> "stream"]
    /\ \A flag \in BOOLEAN : interrupt_cb(stream, flag) = flag
    /\ (last.op \in {"open", "control"} /\ last.resp.err = AVERROR_EXIT
         /\ OpenCalls # <<>>)
          => /\ last.ret = STREAM_ERROR
             /\ stream.priv = 0
             /\ Live(avio) = {}
    /\ pc = "new" =>
          LET x == open_f(stream, avio, opts, caps, FailedWith(AVERROR_EXIT))
          IN  \A e \in {AVERROR_EIO, AVERROR_PROTOCOL_NOT_FOUND} :
                LET y == open_f(stream, avio, opts, caps, FailedWith(e))
                IN  x.s = y.s /\ x.be = y.be /\ x.ret = y.ret
    /\ (Callable /\ CanReopen /\ stream.mode = STREAM_READ) =>
          LET x == control(stream, avio, STREAM_CTRL_RECONNECT, opts, caps,
                           [NoBk EXCEPT !.resp = FailedWith(AVERROR_EXIT)])
              y == control(stream, avio, STREAM_CTRL_RECONNECT, opts, caps,
                           [NoBk EXCEPT !.resp = FailedWith(AVERROR_EIO)])
          IN  /\ x.s = y.s /\ x.be = y.be /\ x.ret = y.ret
              /\ x.ret = STREAM_ERROR
              /\ x.s.priv = 0
              /\ Live(x.be) = {}
    /\ (pc = "opened" /\ stream.priv # 0) =>
          /\ \A n \in 1..MaxLen :
                LET x == fill_buffer(stream, avio, n, AVERROR_EXIT, NULLP)
                IN  /\ x.ret = -1
                    /\ x.s = stream
                    /\ x.be = avio
                    /\ \A r \in {-1, 0} :
                          LET y == fill_buffer(stream, avio, n, r, NULLP)
                          IN  x.s = y.s /\ x.be = y.be /\ x.ret = y.ret
          /\ \A n \in 1..MaxLen :
                LET x == write_buffer(stream, avio, n, TRUE)
                IN  /\ x.ret = -1
                    /\ x.s = stream
                    /\ x.be[stream.priv].st = "open"

\* a Reconnect on an open session was given the callback and was cancelled
\* inside avio_open2: it failed and left no session
C16_Witness ==
    /\ IsReconnect
    /\ last.resp.err = AVERROR_EXIT
    /\ last.ret = STREAM_ERROR
    /\ Len(last.calls) = 2
    /\ last.calls[1].f = "avio_close"
    /\ last.calls[2].arg.cb.callback = "interrupt_cb"
    /\ stream.priv = 0

\* the header block read line by line: where the lines start, the text of
\* the line that starts at st (without its LF or CRLF), and whether a text
\* has the form "key: value"
LineStarts(h) ==
    IF h = <<>> THEN {}
    ELSE {1} \cup {i + 1 : i \in {j \in 1..(Len(h) - 1) : h[j] = LF}}

LineAt(h, st) ==
    LET ends == {i \in st..Len(h) : h[i] = LF}
        en == IF ends = {} THEN Len(h) + 1
              ELSE CHOOSE i \in ends : \A j \in ends : i <= j
        cr == en <= Len(h) /\ en > st /\ h[en - 1] = CR
    IN  SubSeq(h, st, IF cr THEN en - 2 ELSE en - 1)

SepAt(line) == {i \in 1..(Len(line) - 1) : line[i] = ":" /\ line[i + 1] = " "}

KeyOf(line) ==
    SubSeq(line, 1, (CHOOSE i \in SepAt(line) : \A j \in SepAt(line) : i <= j) - 1)

ValueOf(line) ==
    SubSeq(line, (CHOOSE i \in SepAt(line) : \A j \in SepAt(line) : i <= j) + 2,
           Len(line))

\* where the marker StreamTitle=' starts in the packet, and where a single
\* quote stands after the marker that starts at m
MarkersIn(pkt) ==
    {i \in 1..(Len(pkt) - 12) :
        SubSeq(pkt, i, i + 12) =
          <<"S", "t", "r", "e", "a", "m", "T", "i", "t", "l", "e", "=", "'">>}

QuotesAfter(pkt, m) == {j \in (m + 13)..Len(pkt) : pkt[j] = "'"}

t_icy_title == <<"i", "c", "y", "-", "t", "i", "t", "l", "e">>

\* the tag set of the example: StationName=Test, icy-title=Now Playing
ExampleTags ==
    <<<<<<"S", "t", "a", "t", "i", "o", "n", "N", "a", "m", "e">>,
        <<"T", "e", "s", "t">>>>,
      <<t_icy_title,
        <<"N", "o", "w", " ", "P", "l", "a", "y", "i", "n", "g">>>>>>

C18_FailureKeepsSession ==
    /\ (pc = "opened" /\ stream.priv # 0) =>
          LET h == stream.priv
          IN  /\ avio[h].st = "open"
              /\ \A n \in 1..MaxLen :
                    \A r \in {AVERROR_EXIT, -1, 0}
                            \cup 1..Min(n, Len(Content) - avio[h].pos) :
                      LET x == fill_buffer(stream, avio, n, r, NULLP)
                      IN  /\ x.ret = IF r > 0 THEN r ELSE -1
                          /\ x.s = stream
                          /\ x.be[h].st = "open"
                          /\ r <= 0 => x.be = avio
                          /\ x.calls = <<Call("avio_read", avio, h, n)>>
              /\ \A n \in 1..MaxLen :
                    LET x == write_buffer(stream, avio, n, TRUE)
                    IN  /\ x.ret = -1
                        /\ x.s = stream
                        /\ x.be[h].st = "open"
                        /\ x.be[h].seekable = avio[h].seekable
                        /\ \A i \in 1..Len(x.calls) : x.calls[i].h = h
              /\ \A newpos \in 0..Len(Content) :
                    LET x == seek(stream, avio, newpos, -1)
                    IN  /\ x.ret = 0
                        /\ x.s = stream
                        /\ x.be = avio
                        /\ x.calls = <<Call("avio_seek", avio, h, newpos)>>
    /\ (last.op \in {"read", "write", "seek"} /\ stream.priv # 0) =>
          /\ last.calls # <<>>
          /\ \A i \in 1..Len(last.calls) :
                last.calls[i].h = stream.priv /\ last.calls[i].live
          /\ avio[stream.priv].st = "open"
          /\ Live(avio) = {stream.priv}
          /\ stream.fill_buffer /\ stream.write_buffer
          /\ stream.seek = avio[stream.priv].seekable

\* after a write failed (the error flag is set) a seek was issued on the same
\* handle, which is still open, and succeeded
C18_Witness ==
    /\ last.op = "seek"
    /\ last.ret = 1
    /\ stream.priv # 0
    /\ avio[stream.priv].error
    /\ last.calls[1].h = stream.priv
    /\ last.calls[1].live
    /\ avio[stream.priv].st = "open"

\* C19: a Reconnect on a read-mode stream calls avio_open2 exactly once and
\* returns STREAM_OK when that call succeeded and STREAM_ERROR when it
\* failed.  With no session left by a failed Reconnect, the control handler
\* is still installed and a Reconnect calls no avio_close and calls
\* avio_open2 first, with the stream's URL and the flag of its mode; when
\* that succeeds a session is installed whose handle is the only open one
\* and reads from offset 0, and when it fails there is again no session.
C19_ReconnectOnce ==
    /\ (IsReconnect /\ stream.mode = STREAM_READ) =>
          /\ Len(OpenCalls) = 1
          /\ last.ret = IF last.resp.err >= 0 THEN STREAM_OK ELSE STREAM_ERROR
          /\ stream.control
    /\ (Callable /\ stream.priv = 0 /\ CanReopen) =>
          \A resp \in BackendAnswers :
            LET r == control(stream, avio, STREAM_CTRL_RECONNECT, opts, caps,
                             [NoBk EXCEPT !.resp = resp])
                opens == SelectSeq(r.calls, LAMBDA x : x.f = "avio_open2")
            IN  /\ \A i \in 1..Len(r.calls) : r.calls[i].f # "avio_close"
                /\ Len(opens) = 1
                /\ r.calls[1] = opens[1]
                /\ opens[1].arg.filename = Deref(stream.url)
                /\ opens[1].arg.flags =
                      IF stream.mode = STREAM_WRITE THEN AVIO_FLAG_WRITE
                                                    ELSE AVIO_FLAG_READ
                /\ r.s.url = stream.url /\ r.s.mode = stream.mode
                /\ r.s.control
                /\ IF resp.err >= 0
                      THEN /\ r.ret = STREAM_OK
                           /\ r.s.priv # 0
                           /\ Live(r.be) = {r.s.priv}
                           /\ r.s.fill_buffer
                           /\ LET x == fill_buffer(r.s, r.be, 1, 1, NULLP)
                              IN  x.ret = 1 /\ x.out = <<Content[1]>>
                      ELSE /\ r.ret = STREAM_ERROR
                           /\ r.s.priv = 0
                           /\ Live(r.be) = {}

\* a Reconnect found no session (an earlier Reconnect had failed), called
\* avio_open2 without a close before it and installed a new session
C19_Witness ==
    /\ IsReconnect
    /\ last.ret = STREAM_OK
    /\ last.calls[1].f = "avio_open2"
    /\ Cardinality(Used(avio)) >= 2
    /\ stream.priv # 0
    /\ Live(avio) = {stream.priv}

\* the packet field of the session holds a packet no Get-metadata call has
\* delivered
Undelivered ==
    /\ pc = "opened"
    /\ stream.priv # 0
    /\ avio[stream.priv].pkt # NULLP
    /\ Deref(avio[stream.priv].pkt) \notin {<<>>, <<"-">>}

====
